---- MODULE Spec2Model ----
(***************************************************************************)
(* Model of the task dashboard component (todo-dashboard.tsx): the task    *)
(* store held in the persistent state cell, the create-task draft, the     *)
(* filters, and the two memoised values (filteredTasks, stats).  A memo is *)
(* a function of its dependencies and of the clock read when it was last   *)
(* computed, so the state keeps that clock reading (filteredAt, statsAt)   *)
(* and the memoised value is a definition over it.                         *)
(*                                                                         *)
(* Strings that the code inspects character by character (titles, tags,    *)
(* descriptions, queries, due dates) are sequences of one-character        *)
(* strings.  An optional field is <<>> (undefined) or <<v>> (defined).     *)
(*                                                                         *)
(* storage is the content of the localStorage slot "agentic.todo.tasks.v1" *)
(* and fault the error, if any, that the render of the component threw.    *)
(***************************************************************************)
EXTENDS Integers, Sequences, FiniteSets, TLC

VARIABLES tasks, filters, draft, draftTags, now, uuidCount, events,
          filteredAt, statsAt, lastIntent, storage, fault

vars == <<tasks, filters, draft, draftTags, now, uuidCount, events,
          filteredAt, statsAt, lastIntent, storage, fault>>

(***************************************************************************)
(* Bounds of the model.                                                    *)
(***************************************************************************)
\* number of events of one session: user intents, and the clock moving on
MaxEvents == 3
\* length of the stored task list the filters are applied to (SpecFilter)
MaxFilterLen == 2
\* length of the stored task list the statistics are computed on (SpecStats)
MaxStatsLen == 4

(***************************************************************************)
(* JavaScript strings.                                                     *)
(***************************************************************************)
Upper == <<"A","B","C","D","E","F","G","H","I","J","K","L","M",
           "N","O","P","Q","R","S","T","U","V","W","X","Y","Z">>
Lower == <<"a","b","c","d","e","f","g","h","i","j","k","l","m",
           "n","o","p","q","r","s","t","u","v","w","x","y","z">>
Digits == <<"0","1","2","3","4","5","6","7","8","9">>

Range(s) == { s[i] : i \in DOMAIN s }

\* String.prototype.trim strips these from both ends
WhiteSpace == {" ", "\t", "\n"}

\* the character class [a-zA-Z0-9]
AlphaNumeric == Range(Upper) \cup Range(Lower) \cup Range(Digits)

ToLowerChar(c) ==
  IF c \in Range(Upper) THEN Lower[CHOOSE i \in DOMAIN Upper : Upper[i] = c] ELSE c

\* String.prototype.toLowerCase
ToLowerCase(s) == [i \in DOMAIN s |-> ToLowerChar(s[i])]

\* String.prototype.trim
Trim(s) ==
  LET keep == { i \in DOMAIN s : s[i] \notin WhiteSpace } IN
  IF keep = {} THEN <<>>
  ELSE SubSeq(s, CHOOSE i \in keep : \A j \in keep : i <= j,
                 CHOOSE i \in keep : \A j \in keep : j <= i)

\* String.prototype.includes
Includes(s, q) ==
  \E i \in 0..(Len(s) - Len(q)) : SubSeq(s, i + 1, i + Len(q)) = q

\* String.prototype.split with a one-character separator
RECURSIVE Split(_, _)
Split(s, sep) ==
  LET at == { i \in DOMAIN s : s[i] = sep } IN
  IF at = {} THEN <<s>>
  ELSE LET i == CHOOSE k \in at : \A j \in at : k <= j
       IN  <<SubSeq(s, 1, i - 1)>> \o Split(SubSeq(s, i + 1, Len(s)), sep)

\* token.replace(/[^a-zA-Z0-9]/g, "")
StripNonAlphaNumeric(s) == SelectSeq(s, LAMBDA c : c \in AlphaNumeric)

\* Array.prototype.filter(Boolean) on an array of strings
FilterBoolean(arr) == SelectSeq(arr, LAMBDA s : s # <<>>)

\* Array.prototype.slice(0, n)
SliceHead(arr, n) == SubSeq(arr, 1, IF Len(arr) < n THEN Len(arr) ELSE n)

\* Array.prototype.slice(-n)
SliceTail(arr, n) ==
  SubSeq(arr, (IF Len(arr) < n THEN 0 ELSE Len(arr) - n) + 1, Len(arr))

\* arr.map((token) => token.trim())
TrimEach(arr) == [i \in DOMAIN arr |-> Trim(arr[i])]

\* arr.map((token) => token.replace(/[^a-zA-Z0-9]/g, ""))
StripEach(arr) == [i \in DOMAIN arr |-> StripNonAlphaNumeric(arr[i])]

(***************************************************************************)
(* Optional fields.                                                        *)
(***************************************************************************)
Undefined == <<>>
Some(v) == <<v>>

\* (x || "") for an optional string x
OrEmpty(x) == IF x = Undefined THEN <<>> ELSE x[1]

\* truthiness of an optional string: defined and not ""
Truthy(x) == x # Undefined /\ x[1] # <<>>

(***************************************************************************)
(* Dates.  A due date is the text of an <input type="date">, "yyyy-mm-dd". *)
(* The clock is [day, tod]: day counts the days since 2024-01-01, tod is 0 *)
(* at local midnight exactly and 1 at any later instant of that day.       *)
(***************************************************************************)
DaysInMonth == <<31, 29, 31, 30, 31, 30, 31, 31, 30, 31, 30, 31>>

IsDigit(c) == c \in Range(Digits)
DigitVal(c) == (CHOOSE i \in DOMAIN Digits : Digits[i] = c) - 1

\* a calendar day as one comparable number
DayKey(y, m, d) == y * 372 + (m - 1) * 31 + (d - 1)

InvalidDate == -1

\* date-fns parseISO of a date-only string: local midnight of that day, or Invalid Date
parseISO(s) ==
  IF /\ Len(s) = 10
     /\ s[5] = "-" /\ s[8] = "-"
     /\ \A i \in {1, 2, 3, 4, 6, 7, 9, 10} : IsDigit(s[i])
  THEN LET y == DigitVal(s[1]) * 1000 + DigitVal(s[2]) * 100
                + DigitVal(s[3]) * 10 + DigitVal(s[4])
           m == DigitVal(s[6]) * 10 + DigitVal(s[7])
           d == DigitVal(s[9]) * 10 + DigitVal(s[10])
       IN  IF m \in 1..12 /\ d >= 1 /\ d <= DaysInMonth[m]
           THEN DayKey(y, m, d) ELSE InvalidDate
  ELSE InvalidDate

\* the calendar day of day number n of 2024
RECURSIVE MonthDay(_, _)
MonthDay(n, m) ==
  IF n < DaysInMonth[m] THEN [m |-> m, d |-> n + 1]
  ELSE MonthDay(n - DaysInMonth[m], m + 1)

NowKey(t) == LET md == MonthDay(t.day, 1) IN DayKey(2024, md.m, md.d)

TwoDigits(n) == <<Digits[(n \div 10) + 1], Digits[(n % 10) + 1]>>

\* new Date(...).toISOString().slice(0, 10) for day number n of 2024
ISODate(n) ==
  LET md == MonthDay(n, 1)
  IN  <<"2", "0", "2", "4", "-">> \o TwoDigits(md.m) \o <<"-">> \o TwoDigits(md.d)

\* a comparison of calendar days only: a date of today is never before now
isBeforeToday(due, t) ==
  /\ due # InvalidDate
  /\ due < NowKey(t)

\* date-fns isBefore(due, new Date())
isBefore(due, t) ==
  /\ due # InvalidDate
  /\ \/ due < NowKey(t)
     \/ due = NowKey(t) /\ t.tod > 0

\* date-fns isToday(due)
isToday(due, t) == due # InvalidDate /\ due = NowKey(t)

\* String.prototype.localeCompare on the characters of a date string
CharRank(c) ==
  IF c = "-" THEN 0
  ELSE IF IsDigit(c) THEN 1 + DigitVal(c)
  ELSE 11

RECURSIVE localeCompare(_, _)
localeCompare(a, b) ==
  IF a = <<>> /\ b = <<>> THEN 0
  ELSE IF a = <<>> THEN -1
  ELSE IF b = <<>> THEN 1
  ELSE IF CharRank(Head(a)) < CharRank(Head(b)) THEN -1
  ELSE IF CharRank(Head(a)) > CharRank(Head(b)) THEN 1
  ELSE localeCompare(Tail(a), Tail(b))

(***************************************************************************)
(* Status progression.                                                     *)
(***************************************************************************)
Status == {"backlog", "in-progress", "review", "done"}
Priority == {"low", "medium", "high"}

StatusOrder == <<"backlog", "in-progress", "review", "done">>

\* Array.prototype.indexOf, zero-based, -1 when absent
IndexOf(arr, x) ==
  IF \E i \in DOMAIN arr : arr[i] = x
  THEN (CHOOSE i \in DOMAIN arr : arr[i] = x /\ \A j \in 1..(i - 1) : arr[j] # x) - 1
  ELSE -1

Min(a, b) == IF a < b THEN a ELSE b
Max(a, b) == IF a > b THEN a ELSE b

\* order[k] for a zero-based k
At(arr, k) == arr[k + 1]

\* nextStatus stepping two stages
nextStatusSkipping(status) ==
  LET idx == IndexOf(StatusOrder, status)
  IN  At(StatusOrder, Min(Len(StatusOrder) - 1, idx + 2))

nextStatus(status) ==
  LET idx == IndexOf(StatusOrder, status)
  IN  At(StatusOrder, Min(Len(StatusOrder) - 1, idx + 1))

\* previousStatus clamped at index 1 instead of 0
previousStatusFloored(status) ==
  LET idx == IndexOf(StatusOrder, status)
  IN  At(StatusOrder, Max(1, idx - 1))

previousStatus(status) ==
  LET idx == IndexOf(StatusOrder, status)
  IN  At(StatusOrder, Max(0, idx - 1))

(***************************************************************************)
(* Tasks.                                                                  *)
(***************************************************************************)
Task(id, title, description, status, priority, dueDate, tags, createdAt) ==
  [id |-> id, title |-> title, description |-> description, status |-> status,
   priority |-> priority, dueDate |-> dueDate, tags |-> tags, createdAt |-> createdAt]

TaskFields ==
  {"id", "title", "description", "status", "priority", "dueDate", "tags", "createdAt"}

\* the day the page is loaded: 2024-01-15
BootDay == 14

BootTime == [day |-> BootDay, tod |-> 1]

DEFAULT_TASKS ==
  << Task(<<"1">>, <<"K","i","c","k","-","o","f","f"," ","s","t","r","a","t","e","g","y"," ","w",
      "o","r","k","s","h","o","p">>,
          Some(<<"A","l","i","g","n"," ","t","h","e"," ","t","e","a","m"," ","o","n"," ","q","u",
              "a","r","t","e","r","l","y"," ","g","o","a","l","s"," ","a","n","d"," ","i","n","v",
                  "e","s","t","m","e","n","t"," ","p","r","i","o","r","i","t","i","e","s",".">>),
          "backlog", "high", Some(ISODate(BootDay)),
          <<<<"P","l","a","n","n","i","n","g">>, <<"L","e","a","d","e","r","s","h","i","p">>>>,
               BootTime),
     Task(<<"2">>, <<"R","e","f","i","n","e"," ","o","n","b","o","a","r","d","i","n","g"," ","s",
         "e","q","u","e","n","c","e">>,
          Some(<<"A","u","d","i","t"," ","t","h","e"," ","p","r","o","d","u","c","t"," ","o","n",
              "b","o","a","r","d","i","n","g"," ","f","l","o","w"," ","a","n","d"," ","s","u","g",
                  "g","e","s","t"," ","q","u","i","c","k"," ","w","i","n","s",".">>),
          "in-progress", "medium", Some(ISODate(BootDay + 2)),
          <<<<"L","i","f","e","c","y","c","l","e">>, <<"G","r","o","w","t","h">>>>, BootTime),
     Task(<<"3">>, <<"S","h","i","p"," ","a","n","a","l","y","t","i","c","s"," ","d","a","s","h",
         "b","o","a","r","d"," ","v","1">>,
          Some(<<"F","i","n","a","l","i","z","e"," ","Q","A"," ","c","h","e","c","k","l","i","s",
              "t"," ","a","n","d"," ","d","e","p","l","o","y"," ","t","h","e"," ","f","i","r","s",
                  "t"," ","a","n","a","l","y","t","i","c","s"," ","r","e","l","e","a","s","e",
                      ".">>),
          "review", "high", Some(ISODate(BootDay + 4)),
          <<<<"P","r","o","d","u","c","t">>, <<"D","e","l","i","v","e","r","y">>>>, BootTime),
     Task(<<"4">>, <<"P","u","b","l","i","s","h"," ","Q","1"," ","i","n","v","e","s","t","o","r",
         " ","u","p","d","a","t","e">>,
          Some(<<"S","u","m","m","a","r","i","z","e"," ","p","e","r","f","o","r","m","a","n","c",
              "e",","," ","r","o","a","d","m","a","p"," ","p","r","o","g","r","e","s","s",","," ",
                  "a","n","d"," ","k","e","y"," ","l","e","a","r","n","i","n","g","s",".">>),
          "done", "low", Some(ISODate(BootDay - 3)),
          <<<<"F","i","n","a","n","c","e">>>>, BootTime) >>

Ids(L) == { L[i].id : i \in DOMAIN L }

(***************************************************************************)
(* Filter engine (filteredTasks).                                          *)
(***************************************************************************)
IdentityFilters == [query |-> <<>>, status |-> "all", priority |-> "all", horizon |-> "all"]

\* the callback without the "all" exemption of the status filter
PassesFiltersExact(task, F, t) ==
  /\ \/ F.query = <<>>
     \/ LET query == ToLowerCase(F.query) IN
        ~ ( /\ ~Includes(ToLowerCase(task.title), query)
            /\ \/ task.description = Undefined
               \/ ~Includes(ToLowerCase(task.description[1]), query)
            /\ ~ \E i \in DOMAIN task.tags : Includes(ToLowerCase(task.tags[i]), query) )
  /\ task.status = F.status
  /\ ~ (F.priority # "all" /\ task.priority # F.priority)
  /\ \/ ~ (F.horizon # "all" /\ Truthy(task.dueDate))
     \/ LET due == parseISO(task.dueDate[1]) IN
        /\ ~ (F.horizon = "today" /\ ~isToday(due, t))
        /\ ~ (F.horizon = "overdue" /\ ~isBefore(due, t))

\* the callback of tasks.filter in filteredTasks
PassesFilters(task, F, t) ==
  /\ \/ F.query = <<>>
     \/ LET query == ToLowerCase(F.query) IN
        ~ ( /\ ~Includes(ToLowerCase(task.title), query)
            /\ \/ task.description = Undefined
               \/ ~Includes(ToLowerCase(task.description[1]), query)
            /\ ~ \E i \in DOMAIN task.tags : Includes(ToLowerCase(task.tags[i]), query) )
  /\ ~ (F.status # "all" /\ task.status # F.status)
  /\ ~ (F.priority # "all" /\ task.priority # F.priority)
  /\ \/ ~ (F.horizon # "all" /\ Truthy(task.dueDate))
     \/ LET due == parseISO(task.dueDate[1]) IN
        /\ ~ (F.horizon = "today" /\ ~isToday(due, t))
        /\ ~ (F.horizon = "overdue" /\ ~isBefore(due, t))

\* a filter that collects the passing tasks by prepending them
FilterTasksPrepending(L, F, t) ==
  LET kept == SelectSeq(L, LAMBDA task : PassesFilters(task, F, t))
  IN  [i \in DOMAIN kept |-> kept[Len(kept) + 1 - i]]

FilterTasks(L, F, t) == SelectSeq(L, LAMBDA task : PassesFilters(task, F, t))

(***************************************************************************)
(* Stats engine (stats).                                                   *)
(***************************************************************************)
\* the comparator of the sort in stats.flow
CompareDue(a, b) == localeCompare(OrEmpty(a.dueDate), OrEmpty(b.dueDate))

\* Array.prototype.sort with CompareDue: stable
RECURSIVE SortByDue(_)
SortByDue(arr) ==
  IF arr = <<>> THEN <<>>
  ELSE LET init == SortByDue(SubSeq(arr, 1, Len(arr) - 1))
           x    == arr[Len(arr)]
           k    == Cardinality({ i \in DOMAIN init : CompareDue(init[i], x) <= 0 })
       IN  SubSeq(init, 1, k) \o <<x>> \o SubSeq(init, k + 1, Len(init))

\* tasks.find((task) => task.status === status)
FindByStatus(L, status) ==
  LET at == { i \in DOMAIN L : L[i].status = status }
  IN  IF at = {} THEN Undefined
      ELSE Some(L[CHOOSE i \in at : \A j \in at : i <= j])

\* Math.floor in place of Math.round
MathFloor(num, den) == num \div den

\* Math.round of the ratio num/den (den > 0, num >= 0): halves round up
MathRound(num, den) == (2 * num + den) \div (2 * den)

IsOverdue(task, t) ==
  /\ Truthy(task.dueDate)
  /\ isBefore(parseISO(task.dueDate[1]), t)
  /\ task.status # "done"

\* the flow taken with slice(0, 3) in place of slice(-3)
FlowFirstThree(L) ==
  SliceHead(SortByDue(SelectSeq(L, LAMBDA task : task.status = "done")), 3)

Flow(L) == SliceTail(SortByDue(SelectSeq(L, LAMBDA task : task.status = "done")), 3)

Focus(L) ==
  LET inProgress == FindByStatus(L, "in-progress")
  IN  IF inProgress # Undefined THEN inProgress
      ELSE FindByStatus(L, "backlog")

Health(totals, done) == IF totals = 0 THEN 0 ELSE MathRound(done * 100, totals)

Stats(L, t) ==
  LET totals == Len(L)
      done   == Len(SelectSeq(L, LAMBDA task : task.status = "done"))
  IN  [totals  |-> totals,
       done    |-> done,
       overdue |-> Len(SelectSeq(L, LAMBDA task : IsOverdue(task, t))),
       health  |-> Health(totals, done),
       flow    |-> Flow(L),
       focus   |-> Focus(L)]

\* One render of TodoDashboard on the list L: the two memoised values, and the
\* list as the computations leave it (filter copies; sort works on the copy).
Render(L, F, t) ==
  [tasks |-> L, filteredTasks |-> FilterTasks(L, F, t), stats |-> Stats(L, t)]

\* the memoised values of the current render
filteredTasks == Render(tasks, filters, filteredAt).filteredTasks
stats == Render(tasks, filters, statsAt).stats

(***************************************************************************)
(* The values the form fields, the filter controls and the events take.   *)
(***************************************************************************)
\* texts typed into the title field
TitlePool == { <<" "," ">>, <<" "," ","P","l","a","n"," ","l","a","u","n","c","h"," "," ">>, <<"Q",
    "3",":"," ","r","e","-","p","l","a","n">> }
\* texts typed into the tags field
DraftTagsPool == { <<" ">>, <<"o","p","s",","," ",",","q","a">> }
DescriptionPool == { <<" ","n","o","t","e","s"," ">> }
DueDatePool == { <<"2","0","2","4","-","0","1","-","1","4">> }
DraftPriorityPool == { "high" }
DraftStatusPool == { "done" }

QueryPool == { <<"P","l","a","n">> }
AllQueries == QueryPool \cup { <<>> }
StatusFilterPool == {"done"}
PriorityFilterPool == {"high"}
HorizonPool == {"today", "overdue"}

BlankDraft ==
  [title |-> <<>>, description |-> <<>>, dueDate |-> <<>>,
   priority |-> "medium", status |-> "backlog", tags |-> <<>>]

RECURSIVE Decimal(_)
Decimal(n) == IF n < 10 THEN <<Digits[n + 1]>> ELSE Decimal(n \div 10) \o <<Digits[(n % 10) + 1]>>

\* crypto.randomUUID(): the k-th identifier drawn in this session; the draws
\* are pairwise distinct and none is the identifier of a default task
randomUUID(k) == <<"u","u","i","d","-">> \o Decimal(k)

\* every identifier a rendered card can have carried in this session
SessionIds == Ids(DEFAULT_TASKS) \cup Ids(tasks) \cup { randomUUID(k) : k \in 1..uuidCount }

RemoveTag(tags, tag) == SelectSeq(tags, LAMBDA existing : existing # tag)

\* the partial tasks handed to updateTask: the tag chip's onClick (the tags
\* of the card without the clicked tag) and an edit of the identifier field
ChangesPool(id) ==
  { [tags |-> RemoveTag(tasks[i].tags, tag)] :
      <<i, tag>> \in { p \in (DOMAIN tasks) \X UNION { Range(tasks[j].tags) : j \in DOMAIN tasks } :
                        tasks[p[1]].id = id /\ p[2] \in Range(tasks[p[1]].tags) } }
  \cup { [id |-> DEFAULT_TASKS[1].id] }

(***************************************************************************)
(* The persistent state cell (usePersistentState).  The slot holds no item *)
(* (kind "absent") or a text: the empty text, a text that is not JSON      *)
(* ("garbage"), or the JSON text of null, of a number, of an object or of  *)
(* an array of objects (items).                                            *)
(***************************************************************************)
OptionalFields == {"description", "dueDate"}

\* JSON.stringify of one task: a field that is undefined is left out
JSONstringifyTask(task) ==
  [f \in { g \in TaskFields : ~(g \in OptionalFields /\ task[g] = Undefined) } |->
     IF f \in OptionalFields THEN task[f][1] ELSE task[f]]

\* JSON.stringify(state) for a list of tasks
JSONstringify(L) ==
  [kind |-> "array", items |-> [i \in DOMAIN L |-> JSONstringifyTask(L[i])]]

\* the task an item of the parsed array is read as: a missing field reads undefined
ParsedTask(item) ==
  [f \in TaskFields |->
     IF f \in DOMAIN item
     THEN (IF f \in OptionalFields THEN Some(item[f]) ELSE item[f])
     ELSE Undefined]

\* JSON.parse(stored) as T, for a text that is JSON
JSONparse(stored) ==
  IF stored.kind = "array"
  THEN [i \in DOMAIN stored.items |-> ParsedTask(stored.items[i])]
  ELSE stored

\* the initializer of useState in usePersistentState
LoadState(stored, initialValue) ==
  IF stored.kind \in {"absent", "empty"} THEN initialValue
  ELSE IF stored.kind = "garbage" THEN initialValue
  ELSE JSONparse(stored)

\* whether the value LoadState returns is an array
LoadsArray(stored) == stored.kind \in {"absent", "empty", "garbage", "array"}

\* the first render on the loaded value: tasks.filter is not a function
\* (or tasks is null) unless the value is an array
RenderFault(stored) == IF LoadsArray(stored) THEN "none" ELSE "TypeError"

\* an effect that runs on mount only (dependency array [])
PersistOnMountOnly(stored, L) == stored

\* the effect of usePersistentState: setItem(key, JSON.stringify(state))
PersistEffect(stored, L) == JSONstringify(L)

(***************************************************************************)
(* State after construction.                                               *)
(***************************************************************************)
\* lastIntent records the event handled last: its kind (op), the identifier
\* it named (id), whether it took effect (hit: the identifier was in the list;
\* for a create, the draft was accepted), the statuses the named tasks had
\* before it (was) and, for a retreat that directly follows an advance of the
\* same identifier, the statuses before that advance (origin).
NoIntent ==
  [op |-> "none", id |-> <<>>, hit |-> FALSE, was |-> <<>>, origin |-> <<>>, batch |-> <<>>]

StatusesOf(L, id) ==
  LET named == SelectSeq(L, LAMBDA task : task.id = id)
  IN  [k \in DOMAIN named |-> named[k].status]

Init ==
  /\ tasks = DEFAULT_TASKS
  /\ filters = IdentityFilters
  /\ draft = BlankDraft
  /\ draftTags = <<>>
  /\ now = BootTime
  /\ uuidCount = 0
  /\ events = 0
  /\ filteredAt = BootTime
  /\ statsAt = BootTime
  /\ lastIntent = NoIntent
  /\ storage = JSONstringify(DEFAULT_TASKS)
  /\ fault = "none"

(***************************************************************************)
(* Handlers.  Each leaves events and lastIntent to its dispatch below.    *)
(***************************************************************************)
\* setTasks(updater) followed by the render it schedules
SetTasks(L) ==
  /\ tasks' = Render(L, filters, now).tasks
  /\ filteredAt' = now
  /\ statsAt' = now
  /\ storage' = PersistEffect(storage, L)
  /\ UNCHANGED fault

\* setFilters(updater) followed by the render: only filteredTasks depends on filters
SetFilters(F) ==
  /\ filters' = F
  /\ tasks' = Render(tasks, F, now).tasks
  /\ filteredAt' = now
  /\ UNCHANGED <<statsAt, draft, draftTags, now, uuidCount, storage, fault>>

SetDraft(d) ==
  /\ draft' = d
  /\ UNCHANGED <<tasks, filters, draftTags, now, uuidCount, filteredAt, statsAt, storage, fault>>

SetDraftTags(s) ==
  /\ draftTags' = s
  /\ UNCHANGED <<tasks, filters, draft, now, uuidCount, filteredAt, statsAt, storage, fault>>

\* the tags of the task handleAddTask builds
TagList(title, rawTags) ==
  IF Len(Trim(rawTags)) > 0
  THEN FilterBoolean(TrimEach(Split(rawTags, ",")))
  ELSE FilterBoolean(StripEach(SliceHead(Split(title, " "), 2)))

\* the task handleAddTask builds from the draft
NewTask(d, rawTags, id, t) ==
  Task(id, Trim(d.title), Some(Trim(d.description)), d.status, d.priority,
       IF d.dueDate = <<>> THEN Undefined ELSE Some(d.dueDate),
       TagList(d.title, rawTags), t)

\* the guard without trim()
TitleIsEmpty(d) == d.title = <<>>

\* if (!draft.title?.trim()) return;
TitleIsBlank(d) == Trim(d.title) = <<>>

\* an updater that puts the new task last: [...prev, task]
AppendTo(task, prev) == prev \o <<task>>

\* the updater of handleAddTask: (prev) => [task, ...prev]
Prepend(task, prev) == <<task>> \o prev

handleAddTask ==
  IF TitleIsBlank(draft)
  THEN UNCHANGED <<tasks, filters, draft, draftTags, now, uuidCount, filteredAt, statsAt,
                   storage, fault>>
  ELSE /\ SetTasks(Prepend(NewTask(draft, draftTags, randomUUID(uuidCount + 1), now), tasks))
       /\ uuidCount' = uuidCount + 1
       /\ draft' = BlankDraft
       /\ draftTags' = <<>>
       /\ UNCHANGED <<filters, now>>

\* a delete by splice(findIndex(...), 1): index -1 removes the last task
DeleteBySplice(L, id) ==
  LET at == { i \in DOMAIN L : L[i].id = id }
      k  == IF at = {} THEN Len(L) ELSE CHOOSE i \in at : \A j \in at : i <= j
  IN  IF L = <<>> THEN L ELSE SubSeq(L, 1, k - 1) \o SubSeq(L, k + 1, Len(L))

DeleteFrom(L, id) == SelectSeq(L, LAMBDA task : task.id # id)

handleDelete(id) ==
  /\ SetTasks(DeleteFrom(tasks, id))
  /\ UNCHANGED <<filters, draft, draftTags, now, uuidCount>>

\* { ...task, ...changes }
Merge(task, changes) ==
  [f \in TaskFields |-> IF f \in DOMAIN changes THEN changes[f] ELSE task[f]]

UpdateIn(L, id, changes) ==
  [i \in DOMAIN L |-> IF L[i].id = id THEN Merge(L[i], changes) ELSE L[i]]

updateTask(id, changes) ==
  /\ SetTasks(UpdateIn(tasks, id, changes))
  /\ UNCHANGED <<filters, draft, draftTags, now, uuidCount>>

ToggleIn(L, id, direction) ==
  [i \in DOMAIN L |->
     IF L[i].id # id THEN L[i]
     ELSE LET target == IF direction = "forward" THEN nextStatus(L[i].status)
                        ELSE previousStatus(L[i].status)
          IN  [L[i] EXCEPT !.status = target]]

toggleStatus(id, direction) ==
  /\ SetTasks(ToggleIn(tasks, id, direction))
  /\ UNCHANGED <<filters, draft, draftTags, now, uuidCount>>

(***************************************************************************)
(* The user's events: one event, its handler, the render.                 *)
(***************************************************************************)
Dispatch(op, id, hit) ==
  /\ events < MaxEvents
  /\ events' = events + 1
  /\ lastIntent' =
       [op |-> op, id |-> id, hit |-> hit, was |-> StatusesOf(tasks, id),
        origin |-> IF op = "retreat" /\ lastIntent.op = "advance" /\ lastIntent.id = id
                   THEN lastIntent.was ELSE <<>>,
        batch |-> <<>>]

EditTitle == \E v \in TitlePool :
  Dispatch("draft", <<>>, TRUE) /\ SetDraft([draft EXCEPT !.title = v])

EditDescription == \E v \in DescriptionPool :
  Dispatch("draft", <<>>, TRUE) /\ SetDraft([draft EXCEPT !.description = v])

EditDueDate == \E v \in DueDatePool :
  Dispatch("draft", <<>>, TRUE) /\ SetDraft([draft EXCEPT !.dueDate = v])

EditPriority == \E v \in DraftPriorityPool :
  Dispatch("draft", <<>>, TRUE) /\ SetDraft([draft EXCEPT !.priority = v])

EditStatus == \E v \in DraftStatusPool :
  Dispatch("draft", <<>>, TRUE) /\ SetDraft([draft EXCEPT !.status = v])

EditTags == \E v \in DraftTagsPool :
  Dispatch("draft", <<>>, TRUE) /\ SetDraftTags(v)

Create == Dispatch("create", <<>>, ~TitleIsBlank(draft)) /\ handleAddTask

Delete == \E id \in SessionIds :
  Dispatch("delete", id, id \in Ids(tasks)) /\ handleDelete(id)

Update == \E id \in SessionIds : \E changes \in ChangesPool(id) :
  Dispatch("update", id, id \in Ids(tasks)) /\ updateTask(id, changes)

Advance == \E id \in SessionIds :
  Dispatch("advance", id, id \in Ids(tasks)) /\ toggleStatus(id, "forward")

Retreat == \E id \in SessionIds :
  Dispatch("retreat", id, id \in Ids(tasks)) /\ toggleStatus(id, "backward")

FilterQuery == \E v \in QueryPool :
  Dispatch("filter", <<>>, TRUE) /\ SetFilters([filters EXCEPT !.query = v])

FilterStatus == \E v \in StatusFilterPool :
  Dispatch("filter", <<>>, TRUE) /\ SetFilters([filters EXCEPT !.status = v])

FilterPriority == \E v \in PriorityFilterPool :
  Dispatch("filter", <<>>, TRUE) /\ SetFilters([filters EXCEPT !.priority = v])

FilterHorizon == \E v \in HorizonPool :
  Dispatch("filter", <<>>, TRUE) /\ SetFilters([filters EXCEPT !.horizon = v])

\* the clock moves on: past midnight, or to the next midnight
Tick ==
  /\ Dispatch("tick", <<>>, TRUE)
  /\ now' = IF now.tod = 0 THEN [now EXCEPT !.tod = 1]
            ELSE [day |-> now.day + 1, tod |-> 0]
  /\ UNCHANGED <<tasks, filters, draft, draftTags, uuidCount, filteredAt, statsAt,
                 storage, fault>>

Next ==
  \/ EditTitle \/ EditDescription \/ EditDueDate \/ EditPriority \/ EditStatus \/ EditTags
  \/ Create \/ Delete \/ Update \/ Advance \/ Retreat
  \/ FilterQuery \/ FilterStatus \/ FilterPriority \/ FilterHorizon
  \/ Tick

Spec == Init /\ [][Next]_vars

(***************************************************************************)
(* The derived values over any stored list.  The page starts on a list     *)
(* read from storage.  SpecFilter: the user sets the four filter fields.   *)
(* SpecStats: the user removes tasks, which recomputes the statistics.     *)
(***************************************************************************)
TaskPool ==
  { Task(<<"a">>, <<"P","l","a","n"," ","l","a","u","n","c","h">>, Undefined, "done", "high",
       Undefined, <<>>, BootTime),
    Task(<<"b">>, <<"S","h","i","p">>, Some(<<"p","l","a","n"," ","i","t">>), "done", "medium",
         Some(<<"2","0","2","4","-","0","1","-","0","1">>),
         <<<<"O","p","s">>>>, BootTime),
    Task(<<"c">>, <<"R","e","v","i","e","w">>, Some(<<>>), "done", "low", Some(<<"2","0","2","4",
        "-","0","2","-","0","1">>),
         <<<<"Q","A">>, <<"P","L","A","N","N","I","N","G">>>>, BootTime),
    Task(<<"d">>, <<"R","e","t","r","o">>, Undefined, "done", "high", Some(<<"2","0","2","4","-",
        "0","1","-","0","1">>), <<>>, BootTime),
    Task(<<"e">>, <<"B","u","d","g","e","t">>, Some(<<"Q","1">>), "in-progress", "medium",
         Some(<<"2","0","2","4","-","0","1","-","1","5">>),
         <<<<"F","i","n","a","n","c","e">>>>, BootTime),
    Task(<<"f">>, <<"H","i","r","e">>, Undefined, "backlog", "low", Some(<<"2","0","2","4","-","0",
        "1","-","1","4">>), <<>>, BootTime) }

\* the lists of at most n distinct stored tasks
StoredLists(n) ==
  UNION { { L \in [1..k -> TaskPool] : \A i, j \in 1..k : i # j => L[i] # L[j] } : k \in 0..n }

\* the page is loaded at midnight exactly, or later that day
ClockPool == { [day |-> BootDay, tod |-> 0], BootTime }

LoadedOn(L, t) ==
  /\ tasks = L
  /\ now = t
  /\ filters = IdentityFilters
  /\ draft = BlankDraft
  /\ draftTags = <<>>
  /\ uuidCount = 0
  /\ events = 0
  /\ filteredAt = t
  /\ statsAt = t
  /\ lastIntent = NoIntent
  /\ storage = JSONstringify(L)
  /\ fault = "none"

FilterInit == \E L \in StoredLists(MaxFilterLen) : \E t \in ClockPool : LoadedOn(L, t)

ChooseQuery == \E v \in AllQueries :
  SetFilters([filters EXCEPT !.query = v]) /\ UNCHANGED <<events, lastIntent>>

ChooseStatus == \E v \in {"all"} \cup Status :
  SetFilters([filters EXCEPT !.status = v]) /\ UNCHANGED <<events, lastIntent>>

ChoosePriority == \E v \in {"all"} \cup Priority :
  SetFilters([filters EXCEPT !.priority = v]) /\ UNCHANGED <<events, lastIntent>>

ChooseHorizon == \E v \in {"all", "today", "overdue"} :
  SetFilters([filters EXCEPT !.horizon = v]) /\ UNCHANGED <<events, lastIntent>>

FilterNext == ChooseQuery \/ ChooseStatus \/ ChoosePriority \/ ChooseHorizon

SpecFilter == FilterInit /\ [][FilterNext]_vars

StatsInit == \E L \in StoredLists(MaxStatsLen) : \E t \in ClockPool : LoadedOn(L, t)

Remove == \E id \in Ids(tasks) :
  handleDelete(id) /\ UNCHANGED <<events, lastIntent>>

StatsNext == Remove

SpecStats == StatsInit /\ [][StatsNext]_vars

(***************************************************************************)
(* Properties.                                                             *)
(***************************************************************************)
RECURSIVE IsSubsequence(_, _)
IsSubsequence(a, b) ==
  IF a = <<>> THEN TRUE
  ELSE IF b = <<>> THEN FALSE
  ELSE IF Head(a) = Head(b) THEN IsSubsequence(Tail(a), Tail(b))
  ELSE IsSubsequence(a, Tail(b))

OnlyWhitespace(s) == \A i \in DOMAIN s : s[i] \in {" ", "\t", "\n"}

\* the position of a stage in backlog, in-progress, review, done
StagePosition(s) ==
  CASE s = "backlog" -> 1 [] s = "in-progress" -> 2 [] s = "review" -> 3 [] s = "done" -> 4

C2_FilteredIsSubsequence ==
  /\ [](IsSubsequence(filteredTasks, tasks))
  /\ [][tasks' = tasks]_vars

C2_Witness ==
  /\ filters.query # <<>>
  /\ Len(tasks) = 2
  /\ Len(filteredTasks) = 1
  /\ filteredTasks[1] = tasks[2]

\* C3: with the identity filter (empty query, status "all", priority "all",
\* horizon "all") the filtered list equals the full task list.
C3_IdentityFilter ==
  ( /\ filters.query = <<>>
    /\ filters.status = "all"
    /\ filters.priority = "all"
    /\ filters.horizon = "all" ) => filteredTasks = tasks

C3_Witness ==
  /\ filters = IdentityFilters
  /\ Len(tasks) = 2
  /\ tasks[1].status # tasks[2].status
  /\ filteredTasks = tasks

\* C4: an advance moves the status of the named task exactly one stage to the
\* right in backlog, in-progress, review, done and a retreat exactly one stage
\* to the left; done advances to done and backlog retreats to backlog; both
\* are defined for every stage and never skip one.
C4_StepMovesOneStage ==
  [][ lastIntent'.op \in {"advance", "retreat"} =>
        /\ Len(tasks') = Len(tasks)
        /\ \A i \in DOMAIN tasks :
             tasks[i].id = lastIntent'.id =>
               LET p == StagePosition(tasks[i].status)
                   q == StagePosition(tasks'[i].status)
               IN  IF lastIntent'.op = "advance"
                   THEN q = (IF p = 4 THEN 4 ELSE p + 1)
                   ELSE q = (IF p = 1 THEN 1 ELSE p - 1) ]_vars

C4_Witness ==
  /\ lastIntent.op = "advance"
  /\ lastIntent.was = <<"done">>
  /\ StatusesOf(tasks, lastIntent.id) = <<"done">>

\* C5: an advance directly followed by a retreat of the same task returns it
\* to its starting stage when it started at backlog, in-progress or review,
\* and leaves it at review when it started at done.
C5_AdvanceThenRetreat ==
  lastIntent.origin # <<>> =>
    StatusesOf(tasks, lastIntent.id) =
      [k \in DOMAIN lastIntent.origin |->
         IF lastIntent.origin[k] = "done" THEN "review" ELSE lastIntent.origin[k]]

C5_Witness ==
  /\ lastIntent.op = "retreat"
  /\ lastIntent.origin = <<"done">>
  /\ StatusesOf(tasks, lastIntent.id) = <<"review">>

\* C6: a create intent whose draft title is empty or only whitespace is
\* rejected: the task list is unchanged, whatever the other draft fields and
\* the raw tag string contain.
C6_BlankTitleRejected ==
  [][ (lastIntent'.op = "create" /\ OnlyWhitespace(draft.title)) => tasks' = tasks ]_vars

C6_Witness ==
  /\ lastIntent.op = "create"
  /\ ~lastIntent.hit
  /\ draft.title # <<>>
  /\ draftTags # <<>>
  /\ tasks = DEFAULT_TASKS

\* the words of a text: its maximal runs of characters other than whitespace
RECURSIVE WordsOf(_)
WordsOf(s) ==
  IF s = <<>> THEN <<>>
  ELSE IF OnlyWhitespace(<<Head(s)>>) THEN WordsOf(Tail(s))
  ELSE LET stops == { i \in DOMAIN s : OnlyWhitespace(<<s[i]>>) }
           n == IF stops = {} THEN Len(s)
                ELSE (CHOOSE i \in stops : \A j \in stops : i <= j) - 1
       IN  <<SubSeq(s, 1, n)>> \o WordsOf(SubSeq(s, n + 1, Len(s)))

\* C7: a task created with a blank raw tag string stores the trimmed draft
\* title, and as tags the first two words of the title with the characters
\* that are not alphanumeric stripped and empty results dropped ("  Plan
\* launch  " gives title "Plan launch" and tags "Plan", "launch").
C7_AutoTagsFromTitle ==
  [][ (lastIntent'.op = "create" /\ lastIntent'.hit /\ OnlyWhitespace(draftTags)) =>
        /\ tasks'[1].title = Trim(draft.title)
        /\ tasks'[1].tags =
             FilterBoolean(StripEach(SliceHead(WordsOf(draft.title), 2))) ]_vars

\* C8: a delete, update, advance or retreat intent that names an identifier
\* not in the task list leaves the list unchanged: same tasks, same field
\* values, same order.
C8_AbsentIdentifierNoOp ==
  [][ ( /\ lastIntent'.op \in {"delete", "update", "advance", "retreat"}
        /\ lastIntent'.id \notin Ids(tasks) ) => tasks' = tasks ]_vars

C8_Witness ==
  /\ lastIntent.op = "delete"
  /\ ~lastIntent.hit
  /\ lastIntent.id \notin Ids(tasks)
  /\ tasks # <<>>

\* a due date as a point in time; a task without one comes before all dates
DueRank(task) ==
  IF task.dueDate = Undefined \/ task.dueDate[1] = <<>> THEN -1
  ELSE parseISO(task.dueDate[1])

PositionIn(L, task) == CHOOSE i \in DOMAIN L : L[i] = task

\* a comes before b when the done tasks of L are sorted by due date
SortsBefore(L, a, b) ==
  \/ DueRank(a) < DueRank(b)
  \/ DueRank(a) = DueRank(b) /\ PositionIn(L, a) < PositionIn(L, b)

\* C9: the momentum feed is exactly the last three of the done tasks of the
\* list sorted ascending by due date, tasks without a due date first: it has
\* at most 3 elements, all done; and computing it does not reorder the list.
C9_FlowIsLastThreeDone ==
  /\ [] LET flow == stats.flow
            doneTasks == { tasks[i] : i \in { j \in DOMAIN tasks : tasks[j].status = "done" } }
        IN  /\ Len(flow) <= 3
            /\ Len(flow) = (IF Cardinality(doneTasks) < 3 THEN Cardinality(doneTasks) ELSE 3)
            /\ \A k \in DOMAIN flow : flow[k] \in doneTasks
            /\ \A k \in 1..(Len(flow) - 1) : SortsBefore(tasks, flow[k], flow[k + 1])
            /\ \A x \in doneTasks \ Range(flow) :
                 \A k \in DOMAIN flow : SortsBefore(tasks, x, flow[k])
  /\ [][IsSubsequence(tasks', tasks)]_vars

\* done tasks due 2024-01-01, 2024-02-01 and with no due date
C9_Witness ==
  /\ Len(tasks) = 3
  /\ \A i \in DOMAIN tasks : tasks[i].status = "done"
  /\ tasks[1].dueDate = Some(<<"2","0","2","4","-","0","1","-","0","1">>)
  /\ tasks[2].dueDate = Some(<<"2","0","2","4","-","0","2","-","0","1">>)
  /\ tasks[3].dueDate = Undefined
  /\ stats.flow = <<tasks[3], tasks[1], tasks[2]>>

\* C10: health is an integer in 0..100; it is 0 for the empty list and
\* otherwise done / totals * 100 rounded to the nearest integer.
C10_HealthIsRoundedPercent ==
  LET totals == Len(tasks)
      done   == Cardinality({ i \in DOMAIN tasks : tasks[i].status = "done" })
      h      == stats.health
      diff   == h * totals - 100 * done
  IN  /\ h \in 0..100
      /\ totals = 0 => h = 0
      /\ totals > 0 => 2 * (IF diff < 0 THEN -diff ELSE diff) <= totals

C10_Witness ==
  /\ Len(tasks) = 3
  /\ stats.done = 2
  /\ stats.health = 67

(***************************************************************************)
(* Start-up over every content of the storage slot: SpecPersist mounts     *)
(* the component on a drawn slot content, and then reloads the page or     *)
(* deletes a task.  A render that threw leaves no component to act on and  *)
(* runs no effect, so the slot keeps its content.                          *)
(***************************************************************************)
MaxStoredLen == 2

StoragePool ==
  { [kind |-> k] : k \in {"absent", "empty", "garbage", "null", "number", "object"} }
    \cup { JSONstringify(L) : L \in StoredLists(MaxStoredLen) }

\* the slot after the first render and its effect
StorageAfterMount(stored) ==
  IF RenderFault(stored) = "none"
  THEN PersistEffect(stored, LoadState(stored, DEFAULT_TASKS))
  ELSE stored

PersistInit == \E stored \in StoragePool, t \in ClockPool :
  /\ tasks = LoadState(stored, DEFAULT_TASKS)
  /\ fault = RenderFault(stored)
  /\ storage = StorageAfterMount(stored)
  /\ filters = IdentityFilters
  /\ draft = BlankDraft
  /\ draftTags = <<>>
  /\ now = t
  /\ uuidCount = 0
  /\ events = 0
  /\ filteredAt = t
  /\ statsAt = t
  /\ lastIntent = [NoIntent EXCEPT !.op = "load",
                                   !.hit = stored.kind \notin {"absent", "empty", "garbage"}]

\* the page is loaded again: the component is constructed from the slot
Reload ==
  /\ tasks' = LoadState(storage, DEFAULT_TASKS)
  /\ fault' = RenderFault(storage)
  /\ storage' = StorageAfterMount(storage)
  /\ filters' = IdentityFilters
  /\ draft' = BlankDraft
  /\ draftTags' = <<>>
  /\ filteredAt' = now
  /\ statsAt' = now
  /\ lastIntent' = [NoIntent EXCEPT !.op = "reload",
                                    !.hit = storage.kind \notin {"absent", "empty", "garbage"}]
  /\ UNCHANGED <<now, uuidCount, events>>

Discard ==
  /\ fault = "none"
  /\ \E id \in Ids(tasks) :
       /\ handleDelete(id)
       /\ lastIntent' = [NoIntent EXCEPT !.op = "delete", !.id = id, !.hit = TRUE]
  /\ UNCHANGED events

PersistNext == Reload \/ Discard

SpecPersist == PersistInit /\ [][PersistNext]_vars

\* C11: once the write that follows the initial load or a change of the
\* task list (create, delete, update, advance, retreat) has run, the slot
\* holds the serialization of the current task list, and loading from the
\* slot yields exactly the current list.
C11_StorageMirrorsTasks ==
  /\ storage = JSONstringify(tasks)
  /\ LoadState(storage, DEFAULT_TASKS) = tasks

\* a task created with no due date is in the list and the written item
\* has no dueDate key; a later change of the list was written as well
C11_Witness ==
  /\ lastIntent.op \in {"advance", "update", "delete"}
  /\ lastIntent.hit
  /\ Len(storage.items) = Len(tasks)
  /\ \E i \in DOMAIN tasks :
       /\ tasks[i].dueDate = Undefined
       /\ DOMAIN storage.items[i] = TaskFields \ {"dueDate"}

\* C12: for every content of the storage slot, loading and the first filter
\* and stats computations raise no error, and an absent or unparsable
\* content gives the default task list.
C12_StartupNeverFails ==
  /\ fault = "none"
  /\ (lastIntent.op \in {"load", "reload"} /\ ~lastIntent.hit) => tasks = DEFAULT_TASKS

(***************************************************************************)
(* Two intents from one rendered snapshot.  The handlers of the cards are  *)
(* closures over the task each card was rendered from; React queues the    *)
(* updaters of the setTasks calls made before the next render and applies  *)
(* them in order, each to the result of the one before.  SpecBatch         *)
(* dispatches two card intents from the same render, then renders.         *)
(***************************************************************************)
\* the intents the cards of a rendered list offer: Remove, Back, Advance
\* and one tag chip per tag, whose changes are computed from the rendered task
CardIntents(rendered) ==
  UNION { { [op |-> "delete", id |-> rendered[i].id],
            [op |-> "retreat", id |-> rendered[i].id],
            [op |-> "advance", id |-> rendered[i].id] }
          \cup { [op |-> "update", id |-> rendered[i].id, tag |-> tag,
                  changes |-> [tags |-> RemoveTag(rendered[i].tags, tag)]] :
                 tag \in Range(rendered[i].tags) } : i \in DOMAIN rendered }

\* the updater the handler of an intent queues, applied to prev
ApplyUpdater(prev, intent) ==
  CASE intent.op = "delete"  -> DeleteFrom(prev, intent.id)
    [] intent.op = "retreat" -> ToggleIn(prev, intent.id, "backward")
    [] intent.op = "advance" -> ToggleIn(prev, intent.id, "forward")
    [] intent.op = "update"  -> UpdateIn(prev, intent.id, intent.changes)

Batch == \E first \in CardIntents(filteredTasks), second \in CardIntents(filteredTasks) :
  /\ events + 2 <= MaxEvents
  /\ events' = events + 2
  /\ SetTasks(ApplyUpdater(ApplyUpdater(tasks, first), second))
  /\ lastIntent' = [NoIntent EXCEPT !.op = "batch", !.hit = TRUE, !.batch = <<first, second>>]
  /\ UNCHANGED <<filters, draft, draftTags, now, uuidCount>>

SpecBatch == Init /\ [][Batch]_vars

\* what an intent asks for, on the list it meets
Reflecting(L, intent) ==
  IF intent.op = "update"
  THEN [i \in DOMAIN L |->
          IF L[i].id = intent.id THEN [L[i] EXCEPT !.tags = RemoveTag(@, intent.tag)] ELSE L[i]]
  ELSE ApplyUpdater(L, intent)

\* C13: when two intents are dispatched from the same rendered snapshot
\* before the list is rendered again, the resulting list reflects both; two
\* tag-removal intents on one task for distinct tags A and B leave the task
\* with neither A nor B.
C13_NoIntentLost ==
  [][ lastIntent'.op = "batch" =>
        LET first  == lastIntent'.batch[1]
            second == lastIntent'.batch[2]
        IN  /\ tasks' = Reflecting(Reflecting(tasks, first), second)
            /\ (first.op = "update" /\ second.op = "update"
                  /\ first.id = second.id /\ first.tag # second.tag) =>
                 \A i \in DOMAIN tasks' :
                    tasks'[i].id = first.id =>
                      {first.tag, second.tag} \cap Range(tasks'[i].tags) = {} ]_vars

C15_HorizonConstrainsDatedOnly ==
  LET others == FilterTasks(tasks, [filters EXCEPT !.horizon = "all"], filteredAt)
      today  == NowKey(filteredAt)
  IN  \A i \in DOMAIN tasks :
        LET task  == tasks[i]
            dated == task.dueDate # Undefined /\ task.dueDate # Some(<<>>)
            due   == parseISO(task.dueDate[1])
        IN  (task \in Range(filteredTasks)) <=>
              /\ task \in Range(others)
              /\ \/ filters.horizon = "all"
                 \/ ~dated
                 \/ /\ filters.horizon = "today"
                    /\ due # InvalidDate /\ due = today
                 \/ /\ filters.horizon = "overdue"
                    /\ due # InvalidDate
                    /\ (due < today \/ (due = today /\ filteredAt.tod > 0))

\* under "overdue", past midnight: a task with no due date and a task due
\* today pass; so does, in another list, a done task due earlier
C15_Witness ==
  /\ filters = [IdentityFilters EXCEPT !.horizon = "overdue"]
  /\ filteredAt.tod > 0
  /\ Len(tasks) = 2
  /\ filteredTasks = tasks
  /\ tasks[1].dueDate = Undefined
  /\ tasks[2].status = "done"
  /\ tasks[2].dueDate = Some(<<"2","0","2","4","-","0","1","-","0","1">>)

(***************************************************************************)
(* SpecToggle: the component is mounted on a stored list and the user      *)
(* moves cards back and forth; updateTask is also called with an edit of   *)
(* the identifier, as in Update.                                           *)
(***************************************************************************)
ToggleInit == \E L \in StoredLists(MaxStoredLen) : LoadedOn(L, BootTime)

StepForward == \E id \in Ids(tasks) :
  /\ toggleStatus(id, "forward")
  /\ lastIntent' = [NoIntent EXCEPT !.op = "advance", !.id = id, !.hit = TRUE]
  /\ UNCHANGED events

StepBack == \E id \in Ids(tasks) :
  /\ toggleStatus(id, "backward")
  /\ lastIntent' = [NoIntent EXCEPT !.op = "retreat", !.id = id, !.hit = TRUE]
  /\ UNCHANGED events

EditIdentifier == \E id \in Ids(tasks) :
  /\ updateTask(id, [id |-> DEFAULT_TASKS[1].id])
  /\ lastIntent' = [NoIntent EXCEPT !.op = "update", !.id = id, !.hit = TRUE]
  /\ UNCHANGED events

ToggleNext == StepForward \/ StepBack \/ EditIdentifier

SpecToggle == ToggleInit /\ [][ToggleNext]_vars

\* the task has a due date whose midnight is strictly before the instant t
DueBefore(task, t) ==
  /\ task.dueDate # Undefined
  /\ task.dueDate # Some(<<>>)
  /\ LET due == parseISO(task.dueDate[1])
     IN  /\ due # InvalidDate
         /\ (due < NowKey(t) \/ (due = NowKey(t) /\ t.tod > 0))

MaxCreates == 2

TypeTitle == \E v \in TitlePool :
  /\ SetDraft([draft EXCEPT !.title = v])
  /\ lastIntent' = [NoIntent EXCEPT !.op = "draft", !.hit = TRUE]
  /\ UNCHANGED events

TypeTags == \E v \in DraftTagsPool :
  /\ SetDraftTags(v)
  /\ lastIntent' = [NoIntent EXCEPT !.op = "draft", !.hit = TRUE]
  /\ UNCHANGED events

Submit ==
  /\ uuidCount < MaxCreates
  /\ handleAddTask
  /\ lastIntent' = [NoIntent EXCEPT !.op = "create", !.hit = ~TitleIsBlank(draft)]
  /\ UNCHANGED events

CreateNext == TypeTitle \/ TypeTags \/ Submit

SpecCreate == Init /\ [][CreateNext]_vars

\* C17: a successful create puts the new task at the head of the list and
\* leaves the existing tasks unchanged and in order, so the list grows by
\* one; after successful creates with no delete in between, the created
\* tasks stand in reverse order of creation ahead of the earlier tasks.
C17_CreatePrepends ==
  /\ [][ (lastIntent'.op = "create" /\ lastIntent'.hit) =>
           /\ Len(tasks') = Len(tasks) + 1
           /\ Tail(tasks') = tasks
           /\ tasks'[1].id \notin Ids(tasks)
           /\ tasks'[1].title = Trim(draft.title) ]_vars
  /\ [](/\ Len(tasks) = uuidCount + Len(DEFAULT_TASKS)
        /\ \A k \in 1..uuidCount : tasks[k].id = randomUUID(uuidCount + 1 - k)
        /\ SubSeq(tasks, uuidCount + 1, Len(tasks)) = DEFAULT_TASKS)

\* two tasks were created: "Q3: re-plan" first, then "Plan launch"
C17_Witness ==
  /\ uuidCount = 2
  /\ lastIntent.op = "create" /\ lastIntent.hit
  /\ tasks[1].id = randomUUID(2)
  /\ tasks[1].title = <<"P","l","a","n"," ","l","a","u","n","c","h">>
  /\ tasks[2].id = randomUUID(1)
  /\ tasks[2].title = <<"Q","3",":"," ","r","e","-","p","l","a","n">>
  /\ tasks[3] = DEFAULT_TASKS[1]

====
